---- MODULE Spec2Model ----
(***************************************************************************)
(* Grocery tracker: the purchase predictor of database.py over the items   *)
(* and purchases tables, and the price extractor of scraper.py.            *)
(*                                                                         *)
(* Optional values (Python None / SQL NULL) are sequences of length 0 or 1.*)
(***************************************************************************)
EXTENDS Integers, Sequences, FiniteSets, TLC

VARIABLES
    items,       \* items table: id -> [target_frequency, on_list]
    purchases,   \* purchases table in insertion order: [item_id, purchased_at]
    resp,        \* what the latest database call returned
    pc,          \* position of the running scrape_whole_foods_price call
    url,         \* its argument
    price, regular_price, on_sale, product_name,   \* its locals
    sel,         \* index of the next selector of the running loop
    log,         \* what the page answered to the price-selector queries
    fetches,     \* number of browser launches / page fetches of the call
    result,      \* the value the call returned, or the exception it let escape
    input_text,  \* the argument of the extract_price call
    extract_result,   \* what the extract_price call returned, once it has
    batch,       \* the items argument of the check_all_prices call
    bidx,        \* index of the item its loop is at
    results,     \* its results dict: item id -> PriceInfo
    now,         \* the time, in the units of time.sleep
    spans,       \* the scrapes of the call: [id, started, ended]
    price_history,  \* price_history table in insertion order
    store_history,  \* store_history table in insertion order
    item_seq,    \* the highest item id handed out so far
    tick         \* the store's clock, in the resolution of CURRENT_TIMESTAMP

dbvars == <<items, purchases, resp>>
scrapevars == <<pc, url, price, regular_price, on_sale, product_name, sel, log,
                fetches, result>>
extractvars == <<input_text, extract_result>>
batchvars == <<batch, bidx, results, now, spans>>
storevars == <<price_history, store_history, item_seq, tick>>
vars == <<items, purchases, resp, pc, url, price, regular_price, on_sale,
          product_name, sel, log, fetches, result, input_text, extract_result,
          batch, bidx, results, now, spans, price_history, store_history,
          item_seq, tick>>

None == <<>>
Some(v) == <<v>>
IsNone(o) == o = <<>>
Val(o) == o[1]

(***************************************************************************)
(* Calendar arithmetic behind datetime.fromisoformat, timedelta and        *)
(* strftime('%Y-%m-%d'): the proleptic Gregorian ordinal of a date.        *)
(***************************************************************************)
IsLeap(y) == (y % 4 = 0) /\ ((y % 100 # 0) \/ (y % 400 = 0))

DaysInMonth(y, m) ==
    IF m = 2 THEN (IF IsLeap(y) THEN 29 ELSE 28)
    ELSE IF m \in {4, 6, 9, 11} THEN 30 ELSE 31

RECURSIVE DaysBeforeMonth(_, _)
DaysBeforeMonth(y, m) ==
    IF m = 1 THEN 0 ELSE DaysBeforeMonth(y, m - 1) + DaysInMonth(y, m - 1)

DaysBeforeYear(y) ==
    365 * (y - 1) + ((y - 1) \div 4) - ((y - 1) \div 100) + ((y - 1) \div 400)

\* date <<y, m, d>> -> ordinal
ymd2ord(date) ==
    DaysBeforeYear(date[1]) + DaysBeforeMonth(date[1], date[2]) + date[3]

RECURSIVE MonthOf(_, _, _)
MonthOf(y, m, n) ==
    IF n <= DaysInMonth(y, m) THEN <<y, m, n>>
    ELSE MonthOf(y, m + 1, n - DaysInMonth(y, m))

RECURSIVE YearOf(_, _)
YearOf(y, n) ==
    LET len == IF IsLeap(y) THEN 366 ELSE 365
    IN  IF n <= len THEN MonthOf(y, 1, n) ELSE YearOf(y + 1, n - len)

\* ordinal -> date <<y, m, d>>
ord2ymd(n) ==
    LET y0 == (n \div 366) + 1
    IN  YearOf(y0, n - DaysBeforeYear(y0))

(***************************************************************************)
(* Timestamp strings str(row['purchased_at']): a date, then nothing        *)
(* (date-only), or a separator ' ' or 'T', a time of day and an optional   *)
(* fractional part (frac, in microseconds, 0 when the string has none).    *)
(***************************************************************************)
DateOnly(date) == [date |-> date, sep |-> "", time |-> <<0, 0, 0>>, frac |-> 0]
DateTime(date, sep, time, frac) ==
    [date |-> date, sep |-> sep, time |-> time, frac |-> frac]

\* The values the store supplies for purchased_at.
Stamps ==
    { DateOnly(<<2024, 1, 1>>),
      DateTime(<<2024, 1, 1>>, " ", <<23, 0, 0>>, 0),
      DateOnly(<<2024, 1, 8>>),
      DateTime(<<2024, 1, 8>>, "T", <<9, 0, 0>>, 0),
      DateTime(<<2024, 1, 8>>, " ", <<23, 0, 0>>, 500000),
      DateOnly(<<2024, 1, 11>>),
      DateOnly(<<2024, 1, 22>>),
      DateTime(<<2024, 3, 1>>, "T", <<12, 0, 0>>, 0) }

\* The values a client sends as 'days' (JSON null is None).
Overrides == {None, Some(0), Some(7), Some(-2)}

\* The item ids requests name; only the ids of Creatable are ever inserted,
\* so the others are ids of items that do not exist.
ItemIds == {1, 2}
Creatable == {1}

\* at most this many rows in the purchases table
MaxPurchases == 3

\* 'T' in s or ' ' in s
HasTimePart(s) == s.sep \in {"T", " "}

\* s.replace(' ', 'T').split('.')[0]
Normalize(s) ==
    [s EXCEPT !.sep = IF @ = " " THEN "T" ELSE @,
              !.frac = IF s.sep = "" THEN @ ELSE 0]

\* datetime.fromisoformat(s): a datetime [ord, sec, us]
fromisoformat(s) ==
    [ord |-> ymd2ord(s.date),
     sec |-> s.time[1] * 3600 + s.time[2] * 60 + s.time[3],
     us  |-> s.frac]

\* (curr - prev).days: timedelta normalises 0 <= seconds, microseconds, so
\* days is the floor of the difference in days
DeltaDays(curr, prev) ==
    (curr.ord - prev.ord)
    - (IF curr.sec < prev.sec \/ (curr.sec = prev.sec /\ curr.us < prev.us)
       THEN 1 ELSE 0)

\* the parse both functions apply to a timestamp string whose branch
\* is chosen by the string test
ParseAs(test, s) ==
    IF HasTimePart(test) THEN fromisoformat(Normalize(s)) ELSE fromisoformat(s)

\* (last_date + timedelta(days=freq)).strftime('%Y-%m-%d')
PlusDaysFormat(dt, freq) == ord2ymd(dt.ord + freq)

\* round(): Python 3 rounds a half to the even neighbour
PyRoundHalfUp(n, d) == (2 * n + d) \div (2 * d)
PyRound(n, d) ==
    LET q == n \div d
        r == n % d
    IN  IF 2 * r < d THEN q
        ELSE IF 2 * r > d THEN q + 1
        ELSE IF q % 2 = 0 THEN q ELSE q + 1

\* ORDER BY purchased_at on the stored text: dates compare by value, then
\* end of string < ' ' < 'T', then the time, then the fraction
SepRank(s) == IF s.sep = "" THEN 0 ELSE IF s.sep = " " THEN 1 ELSE 2
TupleLess(a, b) ==
    \E k \in 1..3 : a[k] < b[k] /\ \A j \in 1..(k - 1) : a[j] = b[j]
TextLess(a, b) ==
    \/ TupleLess(a.date, b.date)
    \/ a.date = b.date /\ SepRank(a) < SepRank(b)
    \/ a.date = b.date /\ SepRank(a) = SepRank(b) /\ TupleLess(a.time, b.time)
    \/ a.date = b.date /\ SepRank(a) = SepRank(b) /\ a.time = b.time
         /\ a.frac < b.frac

RECURSIVE SumSeq(_)
SumSeq(q) == IF q = <<>> THEN 0 ELSE Head(q) + SumSeq(Tail(q))

RECURSIVE Insert(_, _)
Insert(x, q) ==
    IF q = <<>> THEN <<x>>
    ELSE IF TextLess(x, Head(q)) THEN <<x>> \o q
    ELSE <<Head(q)>> \o Insert(x, Tail(q))

RECURSIVE OrderBy(_)
OrderBy(q) == IF q = <<>> THEN <<>> ELSE Insert(Head(q), OrderBy(Tail(q)))

\* SELECT purchased_at FROM purchases WHERE item_id = ? ORDER BY purchased_at
PurchasedAt(item_id) ==
    LET mine == SelectSeq(purchases, LAMBDA r : r.item_id = item_id)
    IN  OrderBy([k \in 1..Len(mine) |-> mine[k].purchased_at])

\* the day gaps of the consecutive pairs, before the days > 0 test
Gaps(rows) ==
    [k \in 1..(Len(rows) - 1) |->
        DeltaDays(ParseAs(rows[k], rows[k + 1]), ParseAs(rows[k], rows[k]))]

KeepGapAll(days) == TRUE
KeepGap(days) == days > 0

Intervals(rows) == SelectSeq(Gaps(rows), KeepGap)

Mean(intervals) == PyRound(SumSeq(intervals), Len(intervals))

calculate_frequency_no_empty_check(item_id) ==
    LET rows == PurchasedAt(item_id)
        intervals == Intervals(rows)
    IN  IF Len(rows) < 2 THEN None
        ELSE IF intervals = <<>> THEN Some(0)
        ELSE Some(Mean(intervals))
calculate_frequency(item_id) ==
    LET rows == PurchasedAt(item_id)
        intervals == Intervals(rows)
    IN  IF Len(rows) < 2 THEN None
        ELSE IF intervals = <<>> THEN None
        ELSE Some(Mean(intervals))

\* Python truthiness of an optional integer
Truthy(o) == ~IsNone(o) /\ Val(o) # 0

\* SELECT target_frequency FROM items WHERE id = ?  (None when no such row)
ItemRow(item_id) ==
    IF item_id \in DOMAIN items THEN Some(items[item_id]) ELSE None

\* ... ORDER BY purchased_at DESC LIMIT 1
FirstPurchase(item_id) ==
    LET rows == PurchasedAt(item_id)
    IN  IF rows = <<>> THEN None ELSE Some(rows[1])
LastPurchase(item_id) ==
    LET rows == PurchasedAt(item_id)
    IN  IF rows = <<>> THEN None ELSE Some(rows[Len(rows)])

EffectiveFrequencyComputedFirst(item_id) ==
    LET item == ItemRow(item_id)
        avg == calculate_frequency(item_id)
    IN  IF Truthy(avg) THEN avg
        ELSE IF ~IsNone(item) THEN Val(item).target_frequency ELSE None
EffectiveFrequency(item_id) ==
    LET item == ItemRow(item_id)
    IN  IF ~IsNone(item) /\ Truthy(Val(item).target_frequency)
        THEN Val(item).target_frequency
        ELSE calculate_frequency(item_id)

predict_next_purchase_no_last_check(item_id) ==
    LET last == LastPurchase(item_id)
        freq == EffectiveFrequency(item_id)
    IN  IF ~Truthy(freq) THEN None
        ELSE IF IsNone(last) THEN Some(ord2ymd(ymd2ord(<<2024, 1, 1>>) + Val(freq)))
        ELSE Some(PlusDaysFormat(ParseAs(Val(last), Val(last)), Val(freq)))
predict_next_purchase(item_id) ==
    LET last == LastPurchase(item_id)
        freq == EffectiveFrequency(item_id)
    IN  IF IsNone(last) THEN None
        ELSE IF ~Truthy(freq) THEN None
        ELSE Some(PlusDaysFormat(ParseAs(Val(last), Val(last)), Val(freq)))

(***************************************************************************)
(* The database calls.  purchased_at is DEFAULT CURRENT_TIMESTAMP: the     *)
(* store's clock does not run backwards, so a new row is not earlier than  *)
(* the newest row of the table.  SQLite is opened without                  *)
(* PRAGMA foreign_keys, so a row may name an item id that does not exist.  *)
(***************************************************************************)
NotEarlier(a, b) ==
    LET x == fromisoformat(a)
        y == fromisoformat(b)
    IN  \/ x.ord > y.ord
        \/ x.ord = y.ord /\ x.sec > y.sec
        \/ x.ord = y.ord /\ x.sec = y.sec /\ x.us >= y.us

ClockAllows(ts) ==
    IF purchases = <<>> THEN TRUE
    ELSE NotEarlier(ts, purchases[Len(purchases)].purchased_at)

NextItemId == Cardinality(DOMAIN items) + 1

NewItem == [target_frequency |-> None, on_list |-> 1, store_id |-> None]

\* record_purchase and set_target_frequency return nothing
Ack == [op |-> "none", item_id |-> 0, value |-> None]

UpdateItems(item_id, field, v) ==
    IF item_id \in DOMAIN items
    THEN [items EXCEPT ![item_id] = [@ EXCEPT ![field] = v]]
    ELSE items

DbInit ==
    /\ items = <<>>
    /\ purchases = <<>>
    /\ resp = Ack

add_item ==
    /\ NextItemId \in Creatable
    /\ items' = [i \in DOMAIN items \cup {NextItemId} |->
                    IF i \in DOMAIN items THEN items[i] ELSE NewItem]
    /\ resp' = [op |-> "add_item", item_id |-> NextItemId,
                value |-> Some(NextItemId)]
    /\ UNCHANGED purchases

record_purchase ==
    \E item_id \in ItemIds, ts \in Stamps :
        /\ Len(purchases) < MaxPurchases
        /\ ClockAllows(ts)
        /\ purchases' = Append(purchases,
                               [item_id |-> item_id, purchased_at |-> ts])
        /\ items' = UpdateItems(item_id, "on_list", 0)
        /\ resp' = Ack

set_target_frequency ==
    \E item_id \in ItemIds, days \in Overrides :
        /\ items' = UpdateItems(item_id, "target_frequency", days)
        /\ resp' = Ack
        /\ UNCHANGED purchases

CallCalculateFrequency ==
    \E item_id \in ItemIds :
        /\ resp' = [op |-> "calculate_frequency", item_id |-> item_id,
                    value |-> calculate_frequency(item_id)]
        /\ UNCHANGED <<items, purchases>>

CallPredictNextPurchase ==
    \E item_id \in ItemIds :
        /\ resp' = [op |-> "predict_next_purchase", item_id |-> item_id,
                    value |-> predict_next_purchase(item_id)]
        /\ UNCHANGED <<items, purchases>>

ScrapeIdle ==
    /\ pc = "idle"
    /\ url = [host |-> <<>>, rest |-> <<>>]
    /\ price = None
    /\ regular_price = None
    /\ on_sale = FALSE
    /\ product_name = None
    /\ sel = 0
    /\ log = <<>>
    /\ fetches = 0
    /\ result = None

ExtractIdle ==
    /\ input_text = <<>>
    /\ extract_result = None

BatchIdle ==
    /\ batch = <<>>
    /\ bidx = 0
    /\ results = <<>>
    /\ now = 0
    /\ spans = <<>>

StoreIdle ==
    /\ price_history = <<>>
    /\ store_history = <<>>
    /\ item_seq = 0
    /\ tick = 0

Init == DbInit /\ ScrapeIdle /\ ExtractIdle /\ BatchIdle /\ StoreIdle

Next ==
    \/ add_item /\ UNCHANGED <<scrapevars, extractvars, batchvars, storevars>>
    \/ record_purchase /\ UNCHANGED <<scrapevars, extractvars, batchvars, storevars>>
    \/ set_target_frequency /\ UNCHANGED <<scrapevars, extractvars, batchvars, storevars>>
    \/ CallCalculateFrequency /\ UNCHANGED <<scrapevars, extractvars, batchvars, storevars>>
    \/ CallPredictNextPurchase /\ UNCHANGED <<scrapevars, extractvars, batchvars, storevars>>

Spec == Init /\ [][Next]_vars

(***************************************************************************)
(* scraper.py.  A text is a sequence of one-character strings; a parsed    *)
(* price is a decimal number [units, frac]: the integer part and the       *)
(* digits after the point without trailing zeros, so that equal floats     *)
(* are equal records.                                                      *)
(***************************************************************************)
Digits == {"0", "1", "2", "3", "4", "5", "6", "7", "8", "9"}

DigitVal(c) ==
    CASE c = "0" -> 0 [] c = "1" -> 1 [] c = "2" -> 2 [] c = "3" -> 3
      [] c = "4" -> 4 [] c = "5" -> 5 [] c = "6" -> 6 [] c = "7" -> 7
      [] c = "8" -> 8 [] c = "9" -> 9

RECURSIVE FirstDigit(_, _)
\* index of the first digit of t at or after i, 0 when there is none
FirstDigit(t, i) ==
    IF i > Len(t) THEN 0
    ELSE IF t[i] \in Digits THEN i ELSE FirstDigit(t, i + 1)

RECURSIVE DigitRunEnd(_, _)
\* index of the last digit of the run of digits starting at i (i - 1: no run)
DigitRunEnd(t, i) ==
    IF i <= Len(t) /\ t[i] \in Digits THEN DigitRunEnd(t, i + 1) ELSE i - 1

RECURSIVE DecValue(_)
DecValue(q) ==
    IF q = <<>> THEN 0
    ELSE DecValue(SubSeq(q, 1, Len(q) - 1)) * 10 + DigitVal(q[Len(q)])

RECURSIVE StripZeros(_)
StripZeros(q) ==
    IF q # <<>> /\ q[Len(q)] = "0" THEN StripZeros(SubSeq(q, 1, Len(q) - 1))
    ELSE q

\* price_text.replace(',', '')
KeepCommas(price_text) == price_text
RemoveCommas(price_text) == SelectSeq(price_text, LAMBDA c : c # ",")

RECURSIVE FirstOf(_, _, _)
\* index of the first character of t at or after i that is in cls, or 0
FirstOf(t, i, cls) ==
    IF i > Len(t) THEN 0
    ELSE IF t[i] \in cls THEN i ELSE FirstOf(t, i + 1, cls)

RECURSIVE RunEndOf(_, _, _)
\* index of the last character of the run of cls characters starting at i
RunEndOf(t, i, cls) ==
    IF i <= Len(t) /\ t[i] \in cls THEN RunEndOf(t, i + 1, cls) ELSE i - 1

\* re.search(r'\$?([\d,]+\.?\d*)', t): the leftmost match starts at the
\* first digit or comma (or at a '$' right before it); group 1 is the run
\* of digits and commas, a point if one follows, and the digits after it.
\* float(group 1) raises ValueError for a group with a comma: None.
extract_price(price_text) ==
    LET t == RemoveCommas(price_text)
        g == FirstOf(t, 1, Digits \cup {","})
        e == RunEndOf(t, g, Digits \cup {","})
        point == e + 1 <= Len(t) /\ t[e + 1] = "."
        f == IF point THEN DigitRunEnd(t, e + 2) ELSE e
    IN  IF price_text = <<>> THEN None
        ELSE IF g = 0 THEN None
        ELSE IF \E k \in g..e : t[k] = "," THEN None
        ELSE Some([units |-> DecValue(SubSeq(t, g, e)),
                   frac  |-> IF point THEN StripZeros(SubSeq(t, e + 2, f))
                             ELSE <<>>])

\* truthiness of an Optional[float]: None and 0.0 are falsy
IsTruthy(extracted) ==
    /\ extracted # None
    /\ ~(extracted[1].units = 0 /\ extracted[1].frac = <<>>)

(***************************************************************************)
(* extract_price applied to a text: the texts of the documentation and     *)
(* every text of up to MaxTextLen characters of TextAlphabet.              *)
(***************************************************************************)
MaxTextLen == 3

TextAlphabet == {"$", "1", "0", ".", ",", "a"}

RECURSIVE TextsUpTo(_)
TextsUpTo(n) ==
    IF n = 0 THEN {<<>>}
    ELSE LET shorter == TextsUpTo(n - 1)
         IN  shorter \cup {Append(t, c) : t \in shorter, c \in TextAlphabet}

DocumentedTexts ==
    { <<"$", "4", ".", "9", "9">>,
      <<"4", ".", "9", "9", "/", "l", "b">>,
      <<"$", "1", ",", "2", "3", "4", ".", "5", "0">>,
      <<"N", "/", "A">>,
      <<"$", "0", ".", "0", "0">> }

PriceTexts == DocumentedTexts \cup TextsUpTo(MaxTextLen)

ExtractInit ==
    /\ DbInit /\ ScrapeIdle /\ BatchIdle /\ StoreIdle
    /\ input_text \in PriceTexts
    /\ extract_result = None

CallExtractPrice ==
    /\ extract_result = None
    /\ extract_result' = Some(extract_price(input_text))
    /\ UNCHANGED <<input_text, dbvars, scrapevars, batchvars, storevars>>

ExtractNext == CallExtractPrice

ExtractSpec == ExtractInit /\ [][ExtractNext]_vars

(***************************************************************************)
(* A URL is a sequence of text fragments, its host first; 'x in url' is    *)
(* the search for the fragments of x as a contiguous part of the URL.      *)
(***************************************************************************)
Lower(frag) == IF frag = "WholeFoods" THEN "wholefoods" ELSE frag

LowerSeq(q) == [k \in 1..Len(q) |-> Lower(q[k])]

\* needle in hay
In(needle, hay) ==
    \E k \in 0..(Len(hay) - Len(needle)) :
        \A j \in 1..Len(needle) : hay[k + j] = needle[j]

Text(u) == u.host \o u.rest

\* the URLs callers pass; the empty URL stands for None and ''
Urls ==
    { [host |-> <<>>, rest |-> <<>>],
      [host |-> <<"www.", "wholefoods", "market.com">>,
       rest |-> <<"/product/milk">>],
      [host |-> <<"www.", "amazon.com">>,
       rest |-> <<"/alm/storefront?brand=", "WholeFoods">>],
      [host |-> <<"www.", "amazon.com">>, rest |-> <<"/dp/B000">>],
      [host |-> <<"grocer.example">>, rest |-> <<"/product/milk">>],
      [host |-> <<"grocer.example">>,
       rest |-> <<"/?ref=", "wholefoods", "market.com">>] }

is_valid_url(u) ==
    IF Text(u) = <<>> THEN FALSE
    ELSE \/ In(<<"wholefoods", "market.com">>, Text(u))
         \/ /\ In(<<"amazon.com">>, Text(u))
            /\ In(<<"wholefoods">>, LowerSeq(Text(u)))

is_amazon(u) == In(<<"amazon.com">>, Text(u))

AmazonPriceSelectors ==
    << ".a-price .a-offscreen", "#priceblock_ourprice",
       "#priceblock_dealprice", ".a-price-whole",
       "#corePrice_feature_div .a-offscreen",
       "#corePriceDisplay_desktop_feature_div .a-offscreen",
       "span.a-price span.a-offscreen",
       "[data-a-color=\"price\"] .a-offscreen" >>

WholeFoodsPriceSelectors ==
    << "[data-testid=\"product-price\"]", ".price-value", ".product-price",
       ".regular-price", "[class*=\"price\"]", ".w-price" >>

AmazonSaleSelectors ==
    << ".a-text-price .a-offscreen", "#priceblock_saleprice",
       ".savingsPercentage", "[data-a-strike=\"true\"]" >>

WholeFoodsSaleSelectors ==
    << "[data-testid=\"sale-price\"]", ".sale-price", ".promo-price",
       "[class*=\"sale\"]", ".was-price" >>

price_selectors(u) ==
    IF is_amazon(u) THEN AmazonPriceSelectors ELSE WholeFoodsPriceSelectors

sale_selectors(u) ==
    IF is_amazon(u) THEN AmazonSaleSelectors ELSE WholeFoodsSaleSelectors

\* the texts inner_text() gives for an element of the page
Texts ==
    { <<"$", "4", ".", "9", "9">>, <<"$", "5", ".", "9", "9">>,
      <<"$", "0", ".", "0", "0">>, <<"N", "/", "A">>, <<>> }

\* what a query of the page gives: no element, an exception, or an element
\* with its text
Missing == [kind |-> "missing"]
Raises == [kind |-> "raise"]
Element(text) == [kind |-> "element", text |-> text]
QueryOutcomes == {Missing, Raises} \cup {Element(t) : t \in Texts}

\* the exceptions playwright raises, by their message
Exceptions == {"Timeout 30000ms exceeded.", "net::ERR_NAME_NOT_RESOLVED"}

PriceInfo(p, r, s, n, e) ==
    [price |-> p, regular_price |-> r, on_sale |-> s, product_name |-> n,
     error |-> e]

\* error messages: the fixed text and, for f"Failed to scrape: {str(e)}",
\* the message of the exception
InvalidUrlError ==
    Some(<<"Invalid URL. Use a wholefoodsmarket.com or Amazon Whole Foods URL",
           "">>)
NoPriceError ==
    Some(<<"Could not extract price from page. The page structure may have changed.",
           "">>)
FetchFailed(e) == Some(<<"fetch failed: ", e>>)
FailedToScrape(e) == Some(<<"Failed to scrape: ", e>>)

Returns(v) == Some([kind |-> "return", value |-> v])
Propagates(e) == Some([kind |-> "raise", value |-> e])

\* except Exception as e: return PriceInfo(..., error=f"Failed to scrape: {e}")
OuterExceptReraise(e) == Propagates(e)
OuterExcept(e) == Returns(PriceInfo(None, None, FALSE, None, FailedToScrape(e)))

\* regular_price=regular_price if on_sale else price
ReturnedRegularDefaulted(p, r, s) == IF s /\ r # None THEN r ELSE p
ReturnedRegular(p, r, s) == IF s THEN r ELSE p

\* the return statements after browser.close()
FinalResultKeepSale(p, r, s, n) ==
    IF p = None THEN PriceInfo(None, r, s, n, NoPriceError)
    ELSE PriceInfo(p, ReturnedRegular(p, r, s), s, n, None)
FinalResult(p, r, s, n) ==
    IF p = None THEN PriceInfo(None, None, FALSE, n, NoPriceError)
    ELSE PriceInfo(p, ReturnedRegular(p, r, s), s, n, None)

(***************************************************************************)
(* scrape_whole_foods_price, one step per interaction with the browser.    *)
(***************************************************************************)
RECURSIVE Strip(_)
\* str.strip() of a text
Strip(t) ==
    IF t # <<>> /\ t[1] = " " THEN Strip(Tail(t))
    ELSE IF t # <<>> /\ t[Len(t)] = " " THEN Strip(SubSeq(t, 1, Len(t) - 1))
    ELSE t

NameTexts == { <<" ", "M", "i", "l", "k", " ">> }
NameOutcomes == {Missing, Raises} \cup {Element(t) : t \in NameTexts}

\* an element whose inner_text() raises
Detached == [kind |-> "detached"]

\* the test of the extracted value in the price loop: if extracted:
AcceptsExtracted(extracted) == IsTruthy(extracted)

\* lines 38-47: the validation, before anything is launched
Start ==
    /\ pc \in {"idle", "done"}
    /\ \E u \in Urls :
        /\ url' = u
        /\ IF is_valid_url(u)
           THEN /\ pc' = "goto"
                /\ result' = None
           ELSE /\ pc' = "done"
                /\ result' = Returns(PriceInfo(None, None, FALSE, None,
                                               InvalidUrlError))
    /\ price' = None
    /\ regular_price' = None
    /\ on_sale' = FALSE
    /\ product_name' = None
    /\ sel' = 0
    /\ log' = <<>>
    /\ fetches' = 0

\* lines 50-59: launch the browser and load the page
Goto ==
    /\ pc = "goto"
    /\ fetches' = fetches + 1
    /\ \/ /\ pc' = "name"
          /\ UNCHANGED result
       \/ \E e \in Exceptions :
          /\ pc' = "done"
          /\ result' = OuterExcept(e)
    /\ UNCHANGED <<url, price, regular_price, on_sale, product_name, sel, log>>

\* lines 66-75: the product name; its exceptions are swallowed
Name ==
    /\ pc = "name"
    /\ \E o \in NameOutcomes :
        product_name' = IF o.kind = "element" THEN Some(Strip(o.text))
                        ELSE None
    /\ pc' = "price"
    /\ sel' = 1
    /\ UNCHANGED <<url, price, regular_price, on_sale, log, fetches, result>>

\* lines 101-111: one iteration of the price loop
PriceQuery ==
    /\ pc = "price"
    /\ \E o \in QueryOutcomes :
        LET extracted == IF o.kind = "element" THEN extract_price(o.text)
                         ELSE None
        IN  /\ log' = Append(log, extracted)
            /\ IF o.kind = "element" /\ AcceptsExtracted(extracted)
               THEN /\ price' = extracted
                    /\ pc' = "sale"
                    /\ sel' = 1
               ELSE /\ price' = price
                    /\ pc' = IF sel = Len(price_selectors(url)) THEN "sale"
                             ELSE "price"
                    /\ sel' = IF sel = Len(price_selectors(url)) THEN 1
                              ELSE sel + 1
    /\ UNCHANGED <<url, regular_price, on_sale, product_name, fetches, result>>

SaleLoopNext ==
    /\ pc' = IF sel = Len(sale_selectors(url)) THEN "content" ELSE "sale"
    /\ sel' = IF sel = Len(sale_selectors(url)) THEN 0 ELSE sel + 1

SaleLoopBreak ==
    /\ pc' = "content"
    /\ sel' = 0

\* lines 130-141: one iteration of the sale loop
SaleQuery ==
    /\ pc = "sale"
    /\ \/ \* no element, or the query raises: next selector
          /\ SaleLoopNext
          /\ UNCHANGED <<on_sale, regular_price>>
       \/ \* an element: on sale; then the query for the regular price
          /\ on_sale' = TRUE
          /\ \E w \in QueryOutcomes :
              IF w.kind = "missing"
              THEN SaleLoopBreak /\ UNCHANGED regular_price
              ELSE IF w.kind = "raise"
              THEN SaleLoopNext /\ UNCHANGED regular_price
              ELSE SaleLoopBreak /\ regular_price' = extract_price(w.text)
    /\ UNCHANGED <<url, price, product_name, log, fetches, result>>

\* lines 143-154: the page content's words and the strikethrough element
ContentCheck ==
    /\ pc = "content"
    /\ \/ \* page.content() raises, or has none of 'sale', 'deal', 'save'
          UNCHANGED <<on_sale, regular_price>>
       \/ \* it has one of them
          IF on_sale THEN UNCHANGED <<on_sale, regular_price>>
          ELSE \E o \in QueryOutcomes \cup {Detached} :
                 IF o.kind \in {"missing", "raise"}
                 THEN UNCHANGED <<on_sale, regular_price>>
                 ELSE /\ on_sale' = TRUE
                      /\ regular_price' =
                           IF o.kind = "element" THEN extract_price(o.text)
                           ELSE regular_price
    /\ pc' = "close"
    /\ UNCHANGED <<url, price, product_name, sel, log, fetches, result>>

\* lines 156-182: browser.close(), then the return; anything raised
\* inside the with block reaches the outer handler
Close ==
    /\ pc = "close"
    /\ \/ result' = Returns(FinalResult(price, regular_price, on_sale,
                                        product_name))
       \/ \E e \in Exceptions : result' = OuterExcept(e)
    /\ pc' = "done"
    /\ UNCHANGED <<url, price, regular_price, on_sale, product_name, sel, log,
                   fetches>>

ScrapeNext ==
    \/ Start /\ UNCHANGED <<dbvars, extractvars, batchvars, storevars>>
    \/ Goto /\ UNCHANGED <<dbvars, extractvars, batchvars, storevars>>
    \/ Name /\ UNCHANGED <<dbvars, extractvars, batchvars, storevars>>
    \/ PriceQuery /\ UNCHANGED <<dbvars, extractvars, batchvars, storevars>>
    \/ SaleQuery /\ UNCHANGED <<dbvars, extractvars, batchvars, storevars>>
    \/ ContentCheck /\ UNCHANGED <<dbvars, extractvars, batchvars, storevars>>
    \/ Close /\ UNCHANGED <<dbvars, extractvars, batchvars, storevars>>

ScrapeSpec == Init /\ [][ScrapeNext]_vars

(***************************************************************************)
(* check_all_prices: one step per iteration of its loop.  A call of        *)
(* scrape_whole_foods_price is one step here; what it can return for a     *)
(* URL is what the step-by-step call above can return for it.              *)
(***************************************************************************)
MaxBatch == 3

EmptyUrl == [host |-> <<>>, rest |-> <<>>]
MilkUrl == [host |-> <<"www.", "wholefoods", "market.com">>,
            rest |-> <<"/product/milk">>]
AmazonUrl == [host |-> <<"www.", "amazon.com">>,
              rest |-> <<"/alm/storefront?brand=", "WholeFoods">>]
OtherUrl == [host |-> <<"grocer.example">>, rest |-> <<"/product/milk">>]

\* the dicts of the items list: two items share an id; one has no URL (the
\* key is missing, None or ''); one has a URL of another site
BatchItems ==
    { [id |-> 1, whole_foods_url |-> MilkUrl],
      [id |-> 1, whole_foods_url |-> AmazonUrl],
      [id |-> 2, whole_foods_url |-> OtherUrl],
      [id |-> 3, whole_foods_url |-> EmptyUrl] }

RECURSIVE SeqsUpTo(_, _)
SeqsUpTo(S, n) ==
    IF n = 0 THEN {<<>>}
    ELSE LET shorter == SeqsUpTo(S, n - 1)
         IN  shorter \cup {Append(q, x) : q \in shorter, x \in S}

Batches == SeqsUpTo(BatchItems, MaxBatch)

\* what the page gave when browser.close() is reached: price, regular
\* price, on_sale and product name
PageReadings ==
    LET p499 == extract_price(<<"$", "4", ".", "9", "9">>)
        p599 == extract_price(<<"$", "5", ".", "9", "9">>)
        milk == Some(<<"M", "i", "l", "k">>)
    IN  { <<None, None, FALSE, None>>,
          <<p499, None, FALSE, milk>>,
          <<p499, p599, TRUE, milk>> }

\* the values scrape_whole_foods_price(u) can return
ScrapeOutcomes(u) ==
    IF ~is_valid_url(u)
    THEN {PriceInfo(None, None, FALSE, None, InvalidUrlError)}
    ELSE {PriceInfo(None, None, FALSE, None, FailedToScrape(e)) :
              e \in {"Timeout 30000ms exceeded."}}
         \cup {FinalResult(r[1], r[2], r[3], r[4]) : r \in PageReadings}

\* how long a call takes: nothing is fetched for a URL that is not valid
ScrapeDurations(u) == IF is_valid_url(u) THEN {1, 3} ELSE {0}

\* if item.get('whole_foods_url'):
HasUrl(item) == Text(item.whole_foods_url) # <<>>

\* results[item['id']] = ...
StoreResultUnlessError(rs, id, v) ==
    IF v.error # None THEN rs
    ELSE [k \in DOMAIN rs \cup {id} |-> IF k = id THEN v ELSE rs[k]]
StoreResult(rs, id, v) ==
    [k \in DOMAIN rs \cup {id} |-> IF k = id THEN v ELSE rs[k]]

\* time.sleep(2)
PolitenessDelay == 2
NoSleep(t) == t
Sleep(t) == t + PolitenessDelay

BatchInit ==
    /\ DbInit /\ ScrapeIdle /\ ExtractIdle /\ StoreIdle
    /\ batch \in Batches
    /\ bidx = 1
    /\ results = <<>>
    /\ now = 0
    /\ spans = <<>>

\* an iteration for an item without a URL: nothing happens
SkipItem ==
    /\ bidx <= Len(batch)
    /\ ~HasUrl(batch[bidx])
    /\ bidx' = bidx + 1
    /\ UNCHANGED <<batch, results, now, spans>>

\* an iteration for an item with a URL: the scrape, then the sleep
ScrapeItem ==
    /\ bidx <= Len(batch)
    /\ HasUrl(batch[bidx])
    /\ LET item == batch[bidx]
       IN  \E v \in ScrapeOutcomes(item.whole_foods_url),
              d \in ScrapeDurations(item.whole_foods_url) :
              /\ results' = StoreResult(results, item.id, v)
              /\ spans' = Append(spans, [item |-> bidx, started |-> now,
                                         ended |-> now + d, value |-> v])
              /\ now' = Sleep(now + d)
    /\ bidx' = bidx + 1
    /\ UNCHANGED batch

BatchNext ==
    \/ SkipItem /\ UNCHANGED <<dbvars, scrapevars, extractvars, storevars>>
    \/ ScrapeItem /\ UNCHANGED <<dbvars, scrapevars, extractvars, storevars>>

BatchSpec == BatchInit /\ [][BatchNext]_vars

(***************************************************************************)
(* The request handlers over the items, purchases, price_history and       *)
(* store_history tables, one step per request.  The store is the SQLite    *)
(* file used when DATABASE_URL is not set: foreign keys are declared but   *)
(* not enforced, CURRENT_TIMESTAMP has a resolution of one second, and a   *)
(* NaN bound to a column is stored as NULL.  A row is modelled by the      *)
(* columns the handlers below read.                                        *)
(***************************************************************************)
MaxRows == 2
MaxTick == 1

\* CURRENT_TIMESTAMP at second t of the store's clock
TickStamp(t) == DateTime(<<2024, 1, 1>>, " ", <<0, 0, t>>, 0)

\* JSON values of the request body
JNull == [kind |-> "null"]
JNumber(units, frac) ==
    [kind |-> "number", value |-> [units |-> units, frac |-> frac]]
JString(text) == [kind |-> "string", text |-> text]

\* float('nan')
NaN == [units |-> 0, frac |-> <<"n", "a", "n">>]

\* float(s) of a text without sign, exponent, underscore or infinity:
\* the number it spells, NaN for 'nan' in any case, None for ValueError
float_of_text(t) ==
    LET s == Strip(t)
        e == DigitRunEnd(s, 1)
        point == e + 1 <= Len(s) /\ s[e + 1] = "."
        f == IF point THEN DigitRunEnd(s, e + 2) ELSE e
    IN  IF /\ Len(s) = 3
           /\ s[1] \in {"n", "N"} /\ s[2] \in {"a", "A"} /\ s[3] \in {"n", "N"}
        THEN Some(NaN)
        ELSE IF s = <<>> \/ f # Len(s) \/ (e = 0 /\ f = 1) THEN None
        ELSE Some([units |-> DecValue(SubSeq(s, 1, e)),
                   frac  |-> IF point THEN StripZeros(SubSeq(s, e + 2, f))
                             ELSE <<>>])

\* try: float(price) except (ValueError, TypeError): None for the except
PyFloat(j) ==
    IF j.kind = "number" THEN Some(j.value)
    ELSE IF j.kind = "string" THEN float_of_text(j.text)
    ELSE None

\* the value stored for a Python float bound to a REAL column
Bind(x) == IF x = NaN THEN None ELSE Some(x)

\* request bodies of the price handlers: price and on_sale
PriceRequests ==
    { [price |-> JNull, on_sale |-> FALSE],
      [price |-> JNumber(4, <<"9", "9">>), on_sale |-> FALSE],
      [price |-> JString(<<"5", ".", "9", "9">>), on_sale |-> TRUE],
      [price |-> JString(<<"a", "b", "c">>), on_sale |-> FALSE],
      [price |-> JString(<<"n", "a", "n">>), on_sale |-> FALSE] }

StoreIds == {1}

\* the responses: a fixed message with status 200 or 201 is Ack
BadRequest == [op |-> "none", item_id |-> 0, value |-> Some(400)]

RowCount == Len(purchases) + Len(price_history) + Len(store_history)

\* INSERT INTO price_history (item_id, price, regular_price, on_sale)
add_price_record(item_id, p, regular, sale) ==
    Append(price_history,
           [item_id |-> item_id, price |-> Bind(p),
            regular_price |-> Bind(regular),
            on_sale |-> IF sale THEN 1 ELSE 0,
            checked_at |-> TickStamp(tick)])

\* SELECT ... FROM price_history WHERE item_id = ?
PriceRows(item_id) == SelectSeq(price_history, LAMBDA r : r.item_id = item_id)

\* SELECT id ... ORDER BY checked_at DESC LIMIT 1: a row that none of the
\* item's rows is later than; which one of several is not specified
LatestChecked(item_id) ==
    LET rows == PriceRows(item_id)
    IN  {k \in 1..Len(rows) :
            \A j \in 1..Len(rows) :
                ~TextLess(rows[k].checked_at, rows[j].checked_at)}

\* MAX(ph.price) as current_price, MAX(ph.on_sale) as on_sale
CurrentPrices(item_id) ==
    LET rows == PriceRows(item_id)
    IN  IF rows = <<>> THEN {[current_price |-> None, on_sale |-> None]}
        ELSE {[current_price |-> rows[k].price,
               on_sale |-> Some(rows[k].on_sale)] : k \in LatestChecked(item_id)}

\* DELETE FROM <table> WHERE item_id = ?
DeleteFrom(rows, item_id) == SelectSeq(rows, LAMBDA r : r.item_id # item_id)
KeepRows(rows, item_id) == rows
DeleteStoreHistory(rows, item_id) == DeleteFrom(rows, item_id)

\* UPDATE items SET on_list = 0 WHERE id = ? of record_purchase
LeaveOnList(item_id) == items
TakeOffList(item_id) == UpdateItems(item_id, "on_list", 0)

\* POST /api/items
api_add_item(req) ==
    LET id == item_seq + 1
        parsed == PyFloat(req.price)
        writes == req.price.kind # "null" /\ parsed # None
    IN  /\ id \in ItemIds
        /\ writes => RowCount < MaxRows
        /\ items' = [i \in DOMAIN items \cup {id} |->
                        IF i \in DOMAIN items THEN items[i] ELSE NewItem]
        /\ item_seq' = id
        /\ price_history' =
              IF writes THEN add_price_record(id, parsed[1], parsed[1], FALSE)
              ELSE price_history
        /\ resp' = Ack
        /\ UNCHANGED <<purchases, store_history, tick>>

\* PUT /api/items/<item_id>
update_item(item_id, on_list) ==
    /\ items' = IF on_list = None THEN items
                ELSE UpdateItems(item_id, "on_list", IF on_list[1] THEN 1 ELSE 0)
    /\ resp' = Ack
    /\ UNCHANGED <<purchases, price_history, store_history, item_seq, tick>>

\* DELETE /api/items/<item_id>
delete_item(item_id) ==
    /\ purchases' = DeleteFrom(purchases, item_id)
    /\ price_history' = DeleteFrom(price_history, item_id)
    /\ store_history' = DeleteStoreHistory(store_history, item_id)
    /\ items' = [i \in DOMAIN items \ {item_id} |-> items[i]]
    /\ resp' = Ack
    /\ UNCHANGED <<item_seq, tick>>

\* POST /api/items/<item_id>/bought
mark_bought(item_id) ==
    /\ RowCount < MaxRows
    /\ purchases' = Append(purchases, [item_id |-> item_id,
                                       purchased_at |-> TickStamp(tick)])
    /\ items' = TakeOffList(item_id)
    /\ resp' = Ack
    /\ UNCHANGED <<price_history, store_history, item_seq, tick>>

\* POST /api/items/<item_id>/add-to-list
add_to_list(item_id) ==
    /\ items' = UpdateItems(item_id, "on_list", 1)
    /\ resp' = Ack
    /\ UNCHANGED <<purchases, price_history, store_history, item_seq, tick>>

\* POST /api/items/<item_id>/price
update_price(item_id, req) ==
    LET parsed == PyFloat(req.price)
    IN  IF req.price.kind = "null" \/ parsed = None
        THEN /\ resp' = BadRequest
             /\ UNCHANGED <<items, purchases, price_history, store_history,
                            item_seq, tick>>
        ELSE /\ RowCount < MaxRows
             /\ price_history' = add_price_record(item_id, parsed[1], parsed[1],
                                                  req.on_sale)
             /\ resp' = Ack
             /\ UNCHANGED <<items, purchases, store_history, item_seq, tick>>

\* PUT /api/items/<item_id>/store
change_item_store(item_id, new_store_id) ==
    LET from_store_id == IF item_id \in DOMAIN items
                         THEN items[item_id].store_id ELSE None
    IN  /\ RowCount < MaxRows
        /\ store_history' = Append(store_history,
                                   [item_id |-> item_id,
                                    from_store_id |-> from_store_id,
                                    to_store_id |-> new_store_id,
                                    changed_at |-> TickStamp(tick)])
        /\ items' = UpdateItems(item_id, "store_id", new_store_id)
        /\ resp' = Ack
        /\ UNCHANGED <<purchases, price_history, item_seq, tick>>

\* GET /api/items: the current price and on_sale reported for an item
get_all_items(item_id) ==
    /\ item_id \in DOMAIN items
    /\ \E v \in CurrentPrices(item_id) :
          resp' = [op |-> "get_all_items", item_id |-> item_id,
                   value |-> Some(v)]
    /\ UNCHANGED <<items, purchases, price_history, store_history, item_seq,
                   tick>>

\* a second passes; one in which nothing was written cannot be observed
\* and is not counted
Tick ==
    /\ tick < MaxTick
    /\ \/ \E k \in 1..Len(price_history) :
             price_history[k].checked_at = TickStamp(tick)
       \/ \E k \in 1..Len(purchases) :
             purchases[k].purchased_at = TickStamp(tick)
       \/ \E k \in 1..Len(store_history) :
             store_history[k].changed_at = TickStamp(tick)
    /\ tick' = tick + 1
    /\ UNCHANGED <<items, purchases, resp, price_history, store_history,
                   item_seq>>

DbNext ==
    \/ /\ \E req \in PriceRequests : api_add_item(req)
       /\ UNCHANGED <<scrapevars, extractvars, batchvars>>
    \/ /\ \E item_id \in ItemIds, on_list \in {None, Some(TRUE), Some(FALSE)} :
             update_item(item_id, on_list)
       /\ UNCHANGED <<scrapevars, extractvars, batchvars>>
    \/ /\ \E item_id \in ItemIds : delete_item(item_id)
       /\ UNCHANGED <<scrapevars, extractvars, batchvars>>
    \/ /\ \E item_id \in ItemIds : mark_bought(item_id)
       /\ UNCHANGED <<scrapevars, extractvars, batchvars>>
    \/ /\ \E item_id \in ItemIds : add_to_list(item_id)
       /\ UNCHANGED <<scrapevars, extractvars, batchvars>>
    \/ /\ \E item_id \in ItemIds, req \in PriceRequests :
             update_price(item_id, req)
       /\ UNCHANGED <<scrapevars, extractvars, batchvars>>
    \/ /\ \E item_id \in ItemIds, s \in StoreIds :
             change_item_store(item_id, Some(s))
       /\ UNCHANGED <<scrapevars, extractvars, batchvars>>
    \/ /\ \E item_id \in ItemIds : get_all_items(item_id)
       /\ UNCHANGED <<scrapevars, extractvars, batchvars>>
    \/ Tick /\ UNCHANGED <<scrapevars, extractvars, batchvars>>

DbSpec == Init /\ [][DbNext]_vars

(***************************************************************************)
(* Properties of the purchase predictor, checked under Spec.               *)
(***************************************************************************)
Jan(d) == DateOnly(<<2024, 1, d>>)

\* the item's purchase timestamps, in insertion order
History(item_id) ==
    LET mine == SelectSeq(purchases, LAMBDA r : r.item_id = item_id)
    IN  [k \in 1..Len(mine) |-> mine[k].purchased_at]

\* the item has a target-frequency override that is present and truthy
HasOverride(item_id) ==
    /\ item_id \in DOMAIN items
    /\ items[item_id].target_frequency # None
    /\ items[item_id].target_frequency[1] # 0

Returned(op) == resp.op = op

\* the ordinal of the latest calendar date among the item's purchases
LastOrdinal(item_id) ==
    LET h == History(item_id)
        ords == {ymd2ord(h[k].date) : k \in 1..Len(h)}
    IN  CHOOSE o \in ords : \A x \in ords : x <= o

\* the strictly positive day gaps of the item's consecutive purchases
PositiveGapIndices(item_id) ==
    LET g == Gaps(PurchasedAt(item_id))
    IN  {k \in 1..Len(g) : g[k] >= 1}

RECURSIVE SumOver(_, _)
SumOver(g, ks) ==
    IF ks = {} THEN 0
    ELSE LET k == CHOOSE x \in ks : TRUE
         IN  g[k] + SumOver(g, ks \ {k})

IsCalendarDate(v) ==
    /\ Len(v) = 3
    /\ v[2] \in 1..12
    /\ v[3] \in 1..DaysInMonth(v[1], v[2])

\* C3 as stated: with no override and purchases 2024-01-01, 2024-01-08,
\* 2024-01-22 (gaps 7 and 14, mean 10.5) the interval rounds to 11 and
\* predict_next_purchase returns 2024-02-02.
C3_HalfRoundsUp ==
    /\ (/\ Returned("predict_next_purchase")
        /\ History(resp.item_id) = <<Jan(1), Jan(8), Jan(22)>>
        /\ ~HasOverride(resp.item_id))
       => resp.value = Some(<<2024, 2, 2>>)
    /\ (/\ Returned("calculate_frequency")
        /\ History(resp.item_id) = <<Jan(1), Jan(8), Jan(22)>>)
       => resp.value = Some(11)

\* C3 amended: the mean 10.5 of the gaps 7 and 14 rounds to the even
\* neighbour 10, and predict_next_purchase returns 2024-02-01.
C3_HalfRoundsToEven ==
    /\ (/\ Returned("predict_next_purchase")
        /\ History(resp.item_id) = <<Jan(1), Jan(8), Jan(22)>>
        /\ ~HasOverride(resp.item_id))
       => resp.value = Some(<<2024, 2, 1>>)
    /\ (/\ Returned("calculate_frequency")
        /\ History(resp.item_id) = <<Jan(1), Jan(8), Jan(22)>>)
       => resp.value = Some(10)

C3_Witness ==
    /\ Returned("predict_next_purchase")
    /\ History(resp.item_id) = <<Jan(1), Jan(8), Jan(22)>>
    /\ ~HasOverride(resp.item_id)
    /\ resp.value # None

\* C6: a present, truthy override wins over the computed average: the
\* prediction is the last purchase date plus the override days for every
\* purchase history; an absent or falsy override falls back to the
\* computed average interval.
C6_OverrideTakesPrecedence ==
    Returned("predict_next_purchase") /\ History(resp.item_id) # <<>> =>
        LET i == resp.item_id
            avg == calculate_frequency(i)
        IN  IF HasOverride(i)
            THEN resp.value =
                 Some(ord2ymd(LastOrdinal(i) + items[i].target_frequency[1]))
            ELSE IF avg = None THEN resp.value = None
            ELSE resp.value = Some(ord2ymd(LastOrdinal(i) + avg[1]))

\* override 7, last purchase 2024-03-01, a history whose own average is
\* not 7: the prediction is 2024-03-08
C6_Witness ==
    /\ Returned("predict_next_purchase")
    /\ HasOverride(resp.item_id)
    /\ items[resp.item_id].target_frequency = Some(7)
    /\ Len(History(resp.item_id)) = 3
    /\ LastOrdinal(resp.item_id) = ymd2ord(<<2024, 3, 1>>)
    /\ calculate_frequency(resp.item_id) \notin {None, Some(7)}
    /\ resp.value = Some(<<2024, 3, 8>>)

\* C7: calculate_frequency leaves every gap of zero or fewer days out of
\* the mean: a non-null result is the mean of the strictly positive gaps
\* rounded to a nearest integer, and 2024-01-01, 2024-01-01, 2024-01-11
\* gives 10.
C7_OnlyPositiveGaps ==
    Returned("calculate_frequency") =>
        /\ resp.value # None =>
             LET ks == PositiveGapIndices(resp.item_id)
                 n == Cardinality(ks)
                 total == SumOver(Gaps(PurchasedAt(resp.item_id)), ks)
                 v == resp.value[1]
             IN  /\ n >= 1
                 /\ 2 * v * n - n <= 2 * total
                 /\ 2 * total <= 2 * v * n + n
        /\ History(resp.item_id) = <<Jan(1), Jan(1), Jan(11)>> =>
             resp.value = Some(10)

C7_Witness ==
    /\ Returned("calculate_frequency")
    /\ History(resp.item_id) = <<Jan(1), Jan(1), Jan(11)>>
    /\ resp.value = Some(10)

\* C8: calculate_frequency returns null exactly when the item has fewer
\* than 2 purchase records or no consecutive pair has a strictly positive
\* day gap; otherwise it returns an integer.
C8_NullExactlyWhenNoGap ==
    Returned("calculate_frequency") =>
        /\ resp.value = None <=>
             \/ Len(History(resp.item_id)) < 2
             \/ PositiveGapIndices(resp.item_id) = {}
        /\ resp.value # None => resp.value[1] \in Int

\* two records and more, none a positive gap apart: null
C8_Witness ==
    /\ Returned("calculate_frequency")
    /\ Len(History(resp.item_id)) >= 2
    /\ PositiveGapIndices(resp.item_id) = {}
    /\ resp.value = None

\* C9: predict_next_purchase returns null when the item has no purchase
\* record (override or not) and when it has one but neither a truthy
\* override nor a computable average; otherwise it returns a date.
C9_NullExactlyWhenNoBasis ==
    Returned("predict_next_purchase") =>
        (resp.value = None <=>
            \/ History(resp.item_id) = <<>>
            \/ /\ ~HasOverride(resp.item_id)
               /\ \/ Len(History(resp.item_id)) < 2
                  \/ PositiveGapIndices(resp.item_id) = {})

\* no purchase record, override set: null
C9_Witness ==
    /\ Returned("predict_next_purchase")
    /\ History(resp.item_id) = <<>>
    /\ HasOverride(resp.item_id)
    /\ resp.value = None

\* C10: a returned prediction is a calendar date without a time component,
\* the date of the last purchase timestamp plus the effective frequency in
\* days, whether that timestamp is date-only, has a space or has a 'T'.
C10_DateOfLastPlusFrequency ==
    Returned("predict_next_purchase") /\ resp.value # None =>
        LET i == resp.item_id
            last == CHOOSE s \in {History(i)[k] : k \in 1..Len(History(i))} :
                       \A k \in 1..Len(History(i)) :
                           ~TextLess(s, History(i)[k])
            freq == IF HasOverride(i) THEN items[i].target_frequency[1]
                    ELSE calculate_frequency(i)[1]
        IN  /\ last.sep \in {"", " ", "T"}
            /\ IsCalendarDate(resp.value[1])
            /\ ymd2ord(resp.value[1]) = ymd2ord(last.date) + freq

\* the last purchase has a space separator, a time of day and a fraction,
\* and the frequency is the computed average
C10_Witness ==
    /\ Returned("predict_next_purchase")
    /\ resp.value # None
    /\ Len(History(resp.item_id)) >= 2
    /\ LET h == History(resp.item_id)
       IN  /\ h[Len(h)].sep = " "
           /\ h[Len(h)].frac # 0
           /\ \A k \in 1..Len(h) : ~TextLess(h[Len(h)], h[k])
    /\ ~HasOverride(resp.item_id)

\* C21: a predicted next purchase date that is not null is strictly later
\* than the calendar date of the item's last purchase, and a frequency
\* that is not null is an integer of at least 1.
C21_PredictionAfterLastPurchase ==
    /\ Returned("predict_next_purchase") /\ resp.value # None =>
          ymd2ord(resp.value[1]) > LastOrdinal(resp.item_id)
    /\ Returned("calculate_frequency") /\ resp.value # None =>
          resp.value[1] \in Nat /\ resp.value[1] >= 1

(***************************************************************************)
(* Properties of the price extractor, checked under ScrapeSpec.            *)
(***************************************************************************)
EndsWith(q, suffix) ==
    /\ Len(suffix) <= Len(q)
    /\ SubSeq(q, Len(q) - Len(suffix) + 1, Len(q)) = suffix

\* the URL is on the retailer's own site, or on the marketplace's site in
\* the retailer's storefront
InAllowedDomains(u) ==
    \/ EndsWith(u.host, <<"wholefoods", "market.com">>)
    \/ /\ EndsWith(u.host, <<"amazon.com">>)
       /\ \E k \in 1..Len(u.rest) : u.rest[k] \in {"wholefoods", "WholeFoods"}

Called == pc # "idle"
HasReturned == pc = "done" /\ result # None /\ result[1].kind = "return"
Quote == result[1].value

\* C1: for every URL outside the allowed domains the call returns error
\* set, price null, regular_price null, on_sale false, and fetches no page
\* (the browser is never launched).
C1_NoFetchOutsideAllowedDomains ==
    Called /\ ~InAllowedDomains(url) =>
        /\ fetches = 0
        /\ pc = "done" =>
             /\ HasReturned
             /\ Quote.error # None
             /\ Quote.price = None
             /\ Quote.regular_price = None
             /\ Quote.on_sale = FALSE

\* C2 as stated: a successful extraction that detected a sale indicator but
\* no regular price returns on_sale true and regular_price equal to price.
C2_RegularDefaultsToPriceOnSale ==
    HasReturned /\ Quote.error = None /\ on_sale /\ regular_price = None =>
        /\ Quote.on_sale = TRUE
        /\ Quote.regular_price = Quote.price
        /\ Quote.regular_price # None

\* C2 amended: a successful extraction that detected a sale indicator but
\* no regular price returns on_sale true and regular_price null;
\* regular_price equals the returned price when no sale indicator was
\* detected.
C2_RegularNullOnSale ==
    HasReturned /\ Quote.error = None =>
        /\ on_sale /\ regular_price = None =>
             Quote.on_sale = TRUE /\ Quote.regular_price = None
        /\ ~on_sale =>
             Quote.on_sale = FALSE /\ Quote.regular_price = Quote.price
        /\ Quote.price # None

C2_Witness ==
    /\ HasReturned
    /\ Quote.error = None
    /\ on_sale
    /\ regular_price = None
    /\ Quote.on_sale = TRUE
    /\ Quote.price # None

\* index of the earliest consulted selector whose text parsed to a number
FirstParsed ==
    CHOOSE k \in 1..Len(log) :
        log[k] # None /\ \A j \in 1..(k - 1) : log[j] = None

\* C4: the returned price is the value parsed from the earliest selector of
\* the priority list whose text parses to a non-null number, whatever the
\* number; no selector after it is consulted.
C4_FirstParsedNumberWins ==
    /\ HasReturned
    /\ Quote.error \in {None, NoPriceError}
    /\ \E k \in 1..Len(log) : log[k] # None
    => /\ Quote.price = log[FirstParsed]
       /\ Len(log) = FirstParsed

\* C5: for a URL that passes the validation, whatever the fetch and the
\* queries do, the call returns a PriceInfo and lets no exception out.
C5_NeverRaises ==
    Called /\ is_valid_url(url) =>
        /\ result # None => result[1].kind = "return"
        /\ pc = "done" =>
             /\ result # None
             /\ DOMAIN result[1].value =
                  {"price", "regular_price", "on_sale", "product_name", "error"}

\* the page load timed out and the call returned the failure as a value
C5_Witness ==
    /\ pc = "done"
    /\ is_valid_url(url)
    /\ fetches = 1
    /\ result # None
    /\ result[1].kind = "return"
    /\ result[1].value.error = FailedToScrape("Timeout 30000ms exceeded.")

\* the step is the fetch failing: an exception of launch or page.goto
FetchFails == pc = "goto" /\ pc' = "done"

\* the step is browser.close() failing, the unexpected failure that is left
\* once the exceptions of the queries are swallowed
CloseFails ==
    /\ pc = "close" /\ pc' = "done"
    /\ result' # Returns(FinalResult(price, regular_price, on_sale,
                                     product_name))

\* the text before the detail in the error of the returned value
ErrorPrefix(res) == res[1].value.error[1][1]
ErrorDetail(res) == res[1].value.error[1][2]

\* C14 as stated: a fetch failure yields the error "fetch failed: <detail>"
\* and any other unexpected failure "scrape failed: <detail>".
C14_FetchAndScrapeFailuresTyped ==
    [][/\ FetchFails => /\ result'[1].kind = "return"
                        /\ ErrorPrefix(result') = "fetch failed: "
       /\ CloseFails => /\ result'[1].kind = "return"
                        /\ ErrorPrefix(result') = "scrape failed: "]_vars

\* C14, amended: a fetch failure, a timeout included, and any other
\* unexpected failure both yield an error result whose error is
\* "Failed to scrape: <detail>", the detail being the exception's message;
\* the text before the detail is the same for the two kinds.
C14_OneFailureText ==
    [][FetchFails \/ CloseFails =>
          /\ result'[1].kind = "return"
          /\ result'[1].value.error # None
          /\ ErrorPrefix(result') = "Failed to scrape: "
          /\ ErrorDetail(result') \in Exceptions
          /\ result'[1].value.price = None]_vars

\* the page load timed out before anything was read from the page
C14_Witness ==
    /\ HasReturned
    /\ fetches = 1
    /\ product_name = None /\ log = <<>>
    /\ Quote.error =
         Some(<<"Failed to scrape: ", "Timeout 30000ms exceeded.">>)

\* C15: a returned PriceInfo has an error exactly when it has no price; an
\* error result has no regular price and on_sale false, even when a sale
\* indicator was found; only the could-not-extract-price error carries a
\* product name.
C15_ErrorResultShape ==
    HasReturned =>
        /\ Quote.error # None <=> Quote.price = None
        /\ Quote.error # None =>
              /\ Quote.regular_price = None
              /\ Quote.on_sale = FALSE
              /\ Quote.product_name # None => Quote.error = NoPriceError

\* no price was found on a page with a name and a sale badge
C15_Witness ==
    /\ HasReturned
    /\ Quote.error = NoPriceError
    /\ Quote.product_name # None
    /\ on_sale /\ regular_price # None
    /\ Quote.on_sale = FALSE /\ Quote.regular_price = None

\* the number of calendar days from the date of one timestamp to the
\* date of another
CalendarDays(prev, curr) == ymd2ord(curr.date) - ymd2ord(prev.date)

\* C20: the gap of a consecutive pair is discarded exactly when the two
\* purchases fall on the same calendar day; a pair on different calendar
\* days contributes the number of calendar days between them, which is
\* positive, whatever the times of day.
C20_GapIsCalendarDays ==
    Returned("calculate_frequency") =>
        LET rows == PurchasedAt(resp.item_id)
            g == Gaps(rows)
        IN  /\ \A k \in 1..Len(g) :
                  LET cal == CalendarDays(rows[k], rows[k + 1])
                  IN  /\ ~KeepGap(g[k]) <=> cal = 0
                      /\ cal # 0 => g[k] = cal /\ cal > 0
            /\ Len(rows) = 2 /\ CalendarDays(rows[1], rows[2]) # 0 =>
                  resp.value = Some(CalendarDays(rows[1], rows[2]))

(***************************************************************************)
(* Properties of extract_price, checked under ExtractSpec.                 *)
(***************************************************************************)
Number(units, frac) == Some([units |-> units, frac |-> frac])

HasDigit(t) == \E k \in 1..Len(t) : t[k] \in Digits

WithoutCommas(t) == SelectSeq(t, LAMBDA c : c # ",")

\* the decimal value of a text of digits only
RECURSIVE Decimal(_)
Decimal(t) ==
    IF t = <<>> THEN 0
    ELSE 10 * Decimal(SubSeq(t, 1, Len(t) - 1))
         + (CHOOSE d \in 0..9 : ToString(d) = t[Len(t)])

\* C11: extract_price strips currency symbols and thousands separators and
\* parses the first decimal number of the text: "$4.99", "4.99/lb" and
\* "$1,234.50" give 4.99, 4.99 and 1234.50; "" and "N/A", and every text
\* without a digit, give null and no error.
C11_PriceTextNormalization ==
    extract_result # None =>
        LET r == extract_result[1]
            t == WithoutCommas(input_text)
        IN  /\ input_text = <<"$", "4", ".", "9", "9">> =>
                 r = Number(4, <<"9", "9">>)
            /\ input_text = <<"4", ".", "9", "9", "/", "l", "b">> =>
                 r = Number(4, <<"9", "9">>)
            /\ input_text = <<"$", "1", ",", "2", "3", "4", ".", "5", "0">> =>
                 r = Number(1234, <<"5">>)
            /\ input_text \in {<<>>, <<"N", "/", "A">>} => r = None
            /\ r = None <=> ~HasDigit(input_text)
            /\ r # None =>
                 \E i \in 1..Len(t), j \in 1..Len(t) :
                    /\ i <= j
                    /\ \A k \in 1..(i - 1) : t[k] \notin Digits
                    /\ \A k \in i..j : t[k] \in Digits
                    /\ j = Len(t) \/ t[j + 1] \notin Digits
                    /\ r[1].units = Decimal(SubSeq(t, i, j))

\* the thousands separator is stripped and the number is parsed whole
C11_Witness ==
    /\ input_text = <<"$", "1", ",", "2", "3", "4", ".", "5", "0">>
    /\ extract_result = Some(Number(1234, <<"5">>))

(***************************************************************************)
(* Properties of check_all_prices, checked under BatchSpec.                *)
(***************************************************************************)
\* the loop has ended: results is what the call returns
BatchReturned == bidx = Len(batch) + 1

\* positions of the batch the loop has been through
Processed == 1..(bidx - 1)

\* the last processed position with a URL and the id, if there is one
LastWithUrl(id) ==
    LET at == {k \in Processed : batch[k].id = id /\ HasUrl(batch[k])}
    IN  IF at = {} THEN 0 ELSE CHOOSE k \in at : \A j \in at : j <= k

\* the scrape made for position k of the batch, if one was made
SpanOf(k) ==
    LET at == {i \in 1..Len(spans) : spans[i].item = k}
    IN  IF at = {} THEN 0 ELSE CHOOSE i \in at : TRUE

C13_SequentialWithDelay ==
    /\ \A i \in 1..Len(spans) : spans[i].started <= spans[i].ended
    /\ \A i \in 1..(Len(spans) - 1) :
          /\ spans[i].item < spans[i + 1].item
          /\ spans[i + 1].started >= spans[i].ended + 2
    /\ \A i \in 1..Len(spans), j \in 1..Len(spans) :
          i < j => spans[i].ended < spans[j].started
    /\ spans # <<>> => now >= spans[Len(spans)].ended + 2

\* two scrapes that took time, the second started 2 units after the first
C13_Witness ==
    /\ Len(spans) >= 2
    /\ spans[1].ended = spans[1].started + 3
    /\ spans[2].started = spans[1].ended + 2
    /\ spans[2].ended > spans[2].started

(***************************************************************************)
(* Properties of the request handlers, checked under DbSpec.               *)
(***************************************************************************)
\* the rows of a table that reference other items than item_id, in order
Others(rows, item_id) == SelectSeq(rows, LAMBDA r : r.item_id # item_id)

OffList(its, i) == i \in DOMAIN its /\ its[i].on_list = 0
OnList(its, i) == i \in DOMAIN its /\ its[i].on_list = 1

\* C16: marking an item bought appends exactly one purchase record to the
\* existing ones, which stay as they are, and takes the item off the list;
\* an item that is off the list is put back on it only by add_to_list or
\* by an update with on_list true, whatever else is requested.
C16_BoughtStaysOffList ==
    [][\A i \in ItemIds :
          /\ mark_bought(i) =>
                /\ Len(purchases') = Len(purchases) + 1
                /\ SubSeq(purchases', 1, Len(purchases)) = purchases
                /\ purchases'[Len(purchases')].item_id = i
                /\ i \in DOMAIN items => OffList(items', i)
          /\ OffList(items, i) /\ OnList(items', i) =>
                add_to_list(i) \/ update_item(i, Some(TRUE))]_vars

\* an item bought twice, the second time in a later second, is off the list
C16_Witness ==
    /\ OffList(items, 1)
    /\ Len(purchases) = 2
    /\ purchases[1] = [item_id |-> 1, purchased_at |-> TickStamp(0)]
    /\ purchases[2] = [item_id |-> 1, purchased_at |-> TickStamp(1)]

\* C17: the current price and on_sale reported for an item are those of
\* the price record inserted last for it, also when two records were
\* inserted within the same second.
C17_CurrentPriceIsLastInserted ==
    resp.op = "get_all_items" =>
        LET rows == PriceRows(resp.item_id)
        IN  rows # <<>> =>
              resp.value = Some([current_price |-> rows[Len(rows)].price,
                                 on_sale |-> Some(rows[Len(rows)].on_sale)])

\* C18: delete_item removes the item and every purchase, price-history and
\* store-history record that references it, and leaves every other item
\* and every other record as it was.
C18_DeleteRemovesItemAndItsRecords ==
    [][\A i \in ItemIds :
          delete_item(i) =>
             /\ DOMAIN items' = DOMAIN items \ {i}
             /\ \A j \in DOMAIN items' : items'[j] = items[j]
             /\ purchases' = Others(purchases, i)
             /\ price_history' = Others(price_history, i)
             /\ store_history' = Others(store_history, i)
             /\ \A k \in 1..Len(purchases') : purchases'[k].item_id # i
             /\ \A k \in 1..Len(price_history') : price_history'[k].item_id # i
             /\ \A k \in 1..Len(store_history') : store_history'[k].item_id # i]_vars

\* item 1 is deleted and so is what was written for it in second 0: the
\* clock has moved on from a second of which no record is left; item 2
\* and its store-history record are there
C18_Witness ==
    /\ item_seq = 2 /\ DOMAIN items = {2}
    /\ tick = 1
    /\ purchases = <<>> /\ price_history = <<>>
    /\ Len(store_history) = 1
    /\ store_history[1].item_id = 2
    /\ store_history[1].changed_at = TickStamp(1)
    /\ items[2].store_id = Some(1)

\* C19: a price-history record is written only for a price that is
\* present and numeric: no stored record has a null price.
C19_NoNullPriceStored ==
    \A k \in 1..Len(price_history) :
        /\ price_history[k].price # None
        /\ price_history[k].price # Some(NaN)

\* C22: every stored purchase record and every stored price-history
\* record references an item that exists, also after requests for an item
\* id that was deleted or never handed out.
C22_NoOrphanRecords ==
    /\ \A k \in 1..Len(purchases) : purchases[k].item_id \in DOMAIN items
    /\ \A k \in 1..Len(price_history) :
          price_history[k].item_id \in DOMAIN items

====
